---- MODULE Spec2Model ----
(***************************************************************************)
(* Model of qt-models/models.cpp: the generic TreeItem / TreeModel pair,   *)
(* the dive list (DiveTripModel, DiveItem, TripItem), the dive computer    *)
(* table (DiveComputerModel), the yearly statistics tree                   *)
(* (YearlyStatisticsModel, YearStatisticsItem) and the table print model   *)
(* (TablePrintModel).                                                      *)
(*                                                                         *)
(* Heap objects are numbered in allocation order; a pointer is the number  *)
(* of the object, NULL is 0.  Sequences are 1-based here and 0-based in    *)
(* the source: a source row r is position r + 1.                           *)
(***************************************************************************)
EXTENDS Integers, Sequences, FiniteSets, TLC

\* ------------------------------------------------------------------ bounds
MaxDives == 4
MaxTrips == 2
MaxNumber == 1
MaxBuilds == 2
MaxEditDives == 2
MaxEditBuilds == 1
MaxDevices == 2
MaxModels == 2
MaxYears == 2
MaxMonths == 2
MaxCellCount == 2
MaxRows == 2
MaxStatTrips == 2
MaxNewlines == 20
MaxLineLen == 2
MaxTail == 1

\* ------------------------------------------------------------- vocabulary
NULL == 0

\* DiveTripModel's fourteen columns (NR is the only editable one).
DiveTripColumns ==
    {"NR", "DATE", "RATING", "DEPTH", "DURATION", "TEMPERATURE", "TOTALWEIGHT",
     "SUIT", "CYLINDER", "GAS", "SAC", "OTU", "MAXCNS", "LOCATION"}

\* The roles the calls of the models are made with.
CallRoles == {"EditRole", "DisplayRole"}

\* A QVariant carrying an int or a string.
QInt(n) == [t |-> "int", i |-> n, s |-> ""]
QStr(str) == [t |-> "string", i |-> 0, s |-> str]
CallValues == {QInt(n) : n \in 0..MaxNumber} \cup {QStr("abc")}

\* QVariant::toInt(): the int itself, 0 for a text that is no number.
toInt(v) == IF v.t = "int" THEN v.i ELSE 0

VARIABLES
    dive_table,        \* the dive store: sequence of [id, number, divetrip]
    autogroup,         \* the global autogroup flag
    preexisting,       \* dive_table.preexisting
    divelist_changed,  \* the store's dirty flag (mark_divelist_changed)
    currentLayout,     \* DiveTripModel::currentLayout
    items,             \* DiveTripModel's heap of TreeItems; items[1] is rootItem
    trips,             \* DiveTripModel::trips: trip -> TripItem
    builds,            \* number of setupModelData() calls so far
    dcList,            \* dcList.dcMap: the committed device map
    dcWorkingMap,      \* DiveComputerModel::dcWorkingMap
    numRows,           \* DiveComputerModel::numRows
    stats_yearly,      \* the yearly statistics array (without its terminator)
    stats_monthly,     \* the monthly statistics array
    stats_by_trip,     \* the by-trip statistics array
    statItems,         \* YearlyStatisticsModel's heap of TreeItems
    cellItem,          \* a YearStatisticsItem that data() is asked about
    cell,              \* what the last data() call returned
    list,              \* TablePrintModel::list
    rows,              \* TablePrintModel::rows
    signals,           \* what the observers saw during the last call
    lastOp             \* the last call and what it returned

tripVars == <<dive_table, autogroup, preexisting, currentLayout, items, trips, builds>>
dcVars == <<dcList, dcWorkingMap, numRows>>
statVars == <<stats_yearly, stats_monthly, stats_by_trip, statItems, cellItem, cell>>
printVars == <<list, rows>>
vars == <<tripVars, divelist_changed, dcVars, statVars, printVars, signals, lastOp>>

rootItem == 1

\* ---------------------------------------------------------------- helpers
\* QList::indexOf, 0-based, -1 when absent
indexOf(seq, x) ==
    IF \E k \in 1..Len(seq) : seq[k] = x
    THEN (CHOOSE k \in 1..Len(seq) : seq[k] = x /\ \A j \in 1..(k - 1) : seq[j] # x) - 1
    ELSE -1

\* ------------------------------------------------------ TreeItem, TreeModel
\* TreeItem::TreeItem(): parent = NULL, no children
NewItem(kind, diveId, trip) ==
    [kind |-> kind, parent |-> NULL, children |-> <<>>, diveId |-> diveId, trip |-> trip]

\* TreeModel::TreeModel(): a root item without children
NewTree(root) == <<root>>

\* TreeItem::row()
TreeItem_row(h, n) ==
    IF h[n].parent # NULL THEN indexOf(h[h[n].parent].children, n) ELSE 0

\* A QModelIndex: row, column and internal pointer; the invalid index.
InvalidIndex == [row |-> -1, column |-> "", ptr |-> NULL]
createIndex(row, column, ptr) == [row |-> row, column |-> column, ptr |-> ptr]
isValid(idx) == idx.row >= 0 /\ idx.column # ""

\* TreeModel::rowCount(parent)
TreeModel_rowCount(h, parent) ==
    Len(h[IF ~isValid(parent) THEN rootItem ELSE parent.ptr].children)

\* QAbstractItemModel::hasIndex as TreeModel::index uses it
hasIndex(h, cols, row, column, parent) ==
    row >= 0 /\ row < TreeModel_rowCount(h, parent) /\ column \in cols

\* TreeModel::index(row, column, parent)
TreeModel_index(h, cols, row, column, parent) ==
    IF ~hasIndex(h, cols, row, column, parent)
    THEN InvalidIndex
    ELSE LET parentItem == IF ~isValid(parent) THEN rootItem ELSE parent.ptr
             childItem == h[parentItem].children[row + 1]
         IN  IF childItem # NULL THEN createIndex(row, column, childItem) ELSE InvalidIndex

\* TreeModel::parent(index)
TreeModel_parent(h, idx) ==
    IF ~isValid(idx)
    THEN InvalidIndex
    ELSE LET parentItem == h[idx.ptr].parent
         IN  IF parentItem = rootItem \/ parentItem = NULL
             THEN InvalidIndex
             ELSE createIndex(TreeItem_row(h, parentItem), "NR", parentItem)

\* Every index a consumer can obtain from index(): the top-level rows and the
\* rows below them.
TopIndexes(h, cols, column) ==
    {TreeModel_index(h, cols, r, column, InvalidIndex) :
        r \in 0..(TreeModel_rowCount(h, InvalidIndex) - 1)}

ChildIndexes(h, cols, column) ==
    UNION {{TreeModel_index(h, cols, r, column, p) :
                r \in 0..(TreeModel_rowCount(h, p) - 1)} :
           p \in TopIndexes(h, cols, "NR")}

\* ------------------------------------------------------------ the dive store
\* get_dive_by_uniq_id(): the position of the dive with this id, 0 when none
get_dive_by_uniq_id(table, id) ==
    IF \E k \in 1..Len(table) : table[k].id = id
    THEN CHOOSE k \in 1..Len(table) : table[k].id = id
    ELSE 0

\* The dive store being filled when a log file is opened: dives get consecutive
\* unique ids, each a trip or none, and a number.
LoadDives(cap, tripChoice, numberChoice) ==
    /\ dive_table = <<>>
    /\ \E n \in 1..cap :
       \E tripOf \in [1..n -> tripChoice] :
       \E numberOf \in [1..n -> numberChoice] :
          dive_table' = [k \in 1..n |->
                            [id |-> k, number |-> numberOf[k], divetrip |-> tripOf[k]]]
    /\ signals' = <<>>
    /\ lastOp' = [op |-> "LoadDives", idx |-> InvalidIndex, role |-> "", value |-> QInt(0),
                  ret |-> FALSE]
    /\ UNCHANGED <<autogroup, preexisting, divelist_changed, currentLayout, items, trips, builds>>
    /\ UNCHANGED <<dcVars, statVars, printVars>>

\* autogroup_dives(): every dive without a trip is put into one; dives that
\* have a trip keep it.
AutogroupOutcomes(table) ==
    {[k \in 1..Len(table) |->
        [table[k] EXCEPT !.divetrip = IF @ # NULL THEN @ ELSE f[k]]] :
     f \in [1..Len(table) -> 1..MaxTrips]}

\* ------------------------------------------------- DiveTripModel::setupModelData
\* (mutant) the store walked from its first dive on
WalkOrderForward(n) == [k \in 1..n |-> k - 1]

\* `int i = dive_table.nr; while (--i >= 0)`: the indexes in the order visited
WalkOrder(n) == [k \in 1..n |-> n - k]

AppendChild(h, p, c) == [h EXCEPT ![p].children = Append(@, c)]

\* `trips.keys().contains(trip)`
TripKnown(tr, trip) == trip \in DOMAIN tr

\* The body of the while loop for the dive at index i.
PlaceDive(table, layout, h, tr, i) ==
    LET dive == table[i + 1]
        trip == dive.divetrip
        d == Len(h) + 1
        diveItem == NewItem("DiveItem", dive.id, NULL)
    IN  IF trip = NULL \/ layout = "LIST"
        THEN [items |-> AppendChild(Append(h, [diveItem EXCEPT !.parent = rootItem]), rootItem, d),
              trips |-> tr]
        ELSE IF ~TripKnown(tr, trip)
             THEN LET t == d + 1
                      tripItem == [NewItem("TripItem", 0, trip) EXCEPT
                                      !.parent = rootItem, !.children = <<d>>]
                  IN  [items |-> AppendChild(Append(Append(h, diveItem), tripItem), rootItem, t),
                       trips |-> [x \in (DOMAIN tr) \cup {trip} |-> IF x = trip THEN t ELSE tr[x]]]
             ELSE [items |-> AppendChild(Append(h, diveItem), tr[trip], d), trips |-> tr]

RECURSIVE Walk(_, _, _, _, _, _)
Walk(order, k, table, layout, h, tr) ==
    IF k > Len(order)
    THEN [items |-> h, trips |-> tr]
    ELSE LET placed == PlaceDive(table, layout, h, tr, order[k])
         IN  Walk(order, k + 1, table, layout, placed.items, placed.trips)

\* What an observer connected to the model's signals sees when a signal is
\* emitted: rowCount() and the top-level rows.
Snap(sig, h) ==
    [sig |-> sig, rowCount |-> Len(h[rootItem].children), rows |-> h[rootItem].children]

Rebuild(layout, opname, cap) ==
    /\ builds < cap
    /\ \E table \in (IF autogroup THEN AutogroupOutcomes(dive_table) ELSE {dive_table}) :
          LET built == Walk(WalkOrder(Len(dive_table)), 1, table, layout, items, trips)
              before == Len(items[rootItem].children)
              after == Len(built.items[rootItem].children)
          IN  /\ dive_table' = table
              /\ items' = built.items
              /\ trips' = built.trips
              /\ signals' =
                    <<Snap("call", items)>>
                    \o (IF before # 0
                        THEN <<Snap("beginRemoveRows", items), Snap("endRemoveRows", items)>>
                        ELSE <<>>)
                    \o (IF after # 0
                        THEN <<Snap("beginInsertRows", built.items),
                               Snap("endInsertRows", built.items)>>
                        ELSE <<>>)
                    \o <<Snap("return", built.items)>>
    /\ preexisting' = Len(dive_table)
    /\ currentLayout' = layout
    /\ builds' = builds + 1
    /\ lastOp' = [op |-> opname, idx |-> InvalidIndex, role |-> "", value |-> QInt(0),
                  ret |-> FALSE]
    /\ UNCHANGED <<autogroup, divelist_changed, dcVars, statVars, printVars>>

setupModelData == Rebuild(currentLayout, "setupModelData", MaxBuilds)

\* DiveTripModel::setLayout(layout)
setLayout(layout, cap) == Rebuild(layout, "setLayout", cap)

\* ------------------------------------------------------- DiveItem::setData
\* (mutant) the check for a number in use left out
NumberNeverInUse(table, v) == FALSE

\* `for_each_dive (i, d) if (d->number == v) return false;`
NumberInUse(table, v) == \E k \in 1..Len(table) : table[k].number = v

\* (mutant) the number is stored and the store is not marked as changed
DiveItem_setData_NoMark(table, diveId, column, value, role) ==
    LET v == toInt(value)
        d == get_dive_by_uniq_id(table, diveId)
        rejected == [ret |-> FALSE, table |-> table, marked |-> FALSE]
    IN  IF role # "EditRole" \/ column # "NR" \/ v = 0 \/ NumberInUse(table, v)
        THEN rejected
        ELSE [ret |-> TRUE, table |-> [table EXCEPT ![d].number = v], marked |-> FALSE]

\* The result of DiveItem::setData: what it returns and the store it leaves.
DiveItem_setData(table, diveId, column, value, role) ==
    LET v == toInt(value)
        d == get_dive_by_uniq_id(table, diveId)
        rejected == [ret |-> FALSE, table |-> table, marked |-> FALSE]
    IN  IF role # "EditRole" THEN rejected
        ELSE IF column # "NR" THEN rejected
        ELSE IF v = 0 THEN rejected
        ELSE IF NumberInUse(table, v) THEN rejected
        ELSE [ret |-> TRUE, table |-> [table EXCEPT ![d].number = toInt(value)], marked |-> TRUE]

\* DiveTripModel::setData(index, value, role)
DiveTripModel_setData(idx, value, role) ==
    LET isDive == idx.ptr # NULL /\ items[idx.ptr].kind = "DiveItem"
        res == IF isDive
               THEN DiveItem_setData(dive_table, items[idx.ptr].diveId, idx.column, value, role)
               ELSE [ret |-> FALSE, table |-> dive_table, marked |-> FALSE]
    IN  /\ dive_table' = res.table
        /\ divelist_changed' = (divelist_changed \/ res.marked)
        /\ signals' = <<>>
        /\ lastOp' = [op |-> "setData", idx |-> idx, role |-> role, value |-> value,
                      ret |-> res.ret]
        /\ UNCHANGED <<autogroup, preexisting, currentLayout, items, trips, builds>>
        /\ UNCHANGED <<dcVars, statVars, printVars>>

\* The rows setData is called on, and the column, role and value of the calls:
\* every value as an edit of the number column, and a number no dive may have
\* yet with another column or another role.
CallIndexes ==
    {InvalidIndex}
    \cup TopIndexes(items, DiveTripColumns, "NR") \cup ChildIndexes(items, DiveTripColumns, "NR")

EditCalls ==
    {[column |-> "NR", role |-> "EditRole", value |-> v] : v \in CallValues}
    \cup {[column |-> c, role |-> r, value |-> QInt(MaxNumber)] :
             c \in {"NR", "DATE"}, r \in CallRoles}

\* ------------------------------------------------------- DiveComputerModel
\* A QMultiMap<QString, DiveComputerNode> is held as the sequence its values()
\* returns: ascending by key and, for one key, the most recently inserted
\* first.  A key (the device model name) is the rank of the name in sort order.
\* The columns are REMOVE, MODEL, ID and NICKNAME.
NickNames == {"a"}

\* QMultiMap::values()
mmValues(map) == map

\* QMultiMap::remove(key, value): every entry with this key and this value
mmRemove(map, key, value) ==
    SelectSeq(map, LAMBDA n : ~(n.model = key /\ n = value))

\* QMultiMap::insert(key, value): in front of the entries of the same key
mmInsert(map, key, value) ==
    LET before == SelectSeq(map, LAMBDA n : n.model < key)
        after == SelectSeq(map, LAMBDA n : n.model >= key)
    IN  before \o <<value>> \o after

\* QVariant::toString()
toString(v) ==
    IF v.t = "string"
    THEN v.s
    ELSE <<"0", "1", "2", "3", "4", "5", "6", "7", "8", "9">>[v.i + 1]

DCSnap(sig, n, map) == [sig |-> sig, rowCount |-> n, rows |-> mmValues(map)]

\* A dive computer becoming known (a download): create_device_node() adds it to
\* the committed map; one entry per model and device id.
create_device_node(model, deviceId, nick) ==
    /\ Len(dcList) < MaxDevices
    /\ \A k \in 1..Len(dcList) : ~(dcList[k].model = model /\ dcList[k].deviceId = deviceId)
    /\ dcList' = mmInsert(dcList, model,
                          [model |-> model, deviceId |-> deviceId, nickName |-> nick])
    /\ signals' = <<>>
    /\ lastOp' = [op |-> "create_device_node", idx |-> InvalidIndex, role |-> "",
                  value |-> QStr(nick), ret |-> FALSE]
    /\ UNCHANGED <<dcWorkingMap, numRows, tripVars, divelist_changed, statVars, printVars>>

\* DiveComputerModel::DiveComputerModel(dcMap): the dialog opening on the
\* committed map
DiveComputerModel_ctor ==
    /\ dcWorkingMap' = dcList
    /\ numRows' = 0
    /\ signals' = <<>>
    /\ lastOp' = [op |-> "DiveComputerModel", idx |-> InvalidIndex, role |-> "",
                  value |-> QInt(0), ret |-> FALSE]
    /\ UNCHANGED <<dcList, tripVars, divelist_changed, statVars, printVars>>

\* update() that leaves the rows alone when their count is the same
DCUpdateSignals_OnlyOnChange(map, n) ==
    IF Len(mmValues(map)) = n
    THEN <<DCSnap("call", n, map), DCSnap("return", n, map)>>
    ELSE <<DCSnap("call", n, map)>>
         \o (IF n # 0
             THEN <<DCSnap("beginRemoveRows", n, map), DCSnap("endRemoveRows", 0, map)>>
             ELSE <<>>)
         \o (IF Len(mmValues(map)) # 0
             THEN <<DCSnap("beginInsertRows", 0, map),
                    DCSnap("endInsertRows", Len(mmValues(map)), map)>>
             ELSE <<>>)
         \o <<DCSnap("return", Len(mmValues(map)), map)>>

\* The signals and the final numRows of DiveComputerModel::update()
DCUpdateSignals(map, n) ==
    LET count == Len(mmValues(map))
    IN  <<DCSnap("call", n, map)>>
        \o (IF n # 0
            THEN <<DCSnap("beginRemoveRows", n, map), DCSnap("endRemoveRows", 0, map)>>
            ELSE <<>>)
        \o (IF count # 0
            THEN <<DCSnap("beginInsertRows", 0, map), DCSnap("endInsertRows", count, map)>>
            ELSE <<>>)
        \o <<DCSnap("return", count, map)>>

\* DiveComputerModel::update()
DiveComputerModel_update ==
    /\ numRows' = Len(mmValues(dcWorkingMap))
    /\ signals' = DCUpdateSignals(dcWorkingMap, numRows)
    /\ lastOp' = [op |-> "update", idx |-> InvalidIndex, role |-> "", value |-> QInt(0),
                  ret |-> FALSE]
    /\ UNCHANGED <<dcList, dcWorkingMap, tripVars, divelist_changed, statVars, printVars>>

\* The map DiveComputerModel::setData leaves: the column and the role are not
\* looked at.
DCSetNickname(map, row, value) ==
    LET node == mmValues(map)[row + 1]
        removed == mmRemove(map, node.model, node)
    IN  mmInsert(removed, node.model, [node EXCEPT !.nickName = toString(value)])

\* DiveComputerModel::setData(index, value, role) for a row of the view
DiveComputerModel_setData(idx, value, role) ==
    /\ idx.row >= 0 /\ idx.row < numRows /\ idx.row < Len(mmValues(dcWorkingMap))
    /\ dcWorkingMap' = DCSetNickname(dcWorkingMap, idx.row, value)
    /\ signals' = <<[sig |-> "dataChanged", rowCount |-> numRows,
                     rows |-> mmValues(dcWorkingMap')]>>
    /\ lastOp' = [op |-> "DCsetData", idx |-> idx, role |-> role, value |-> value, ret |-> TRUE]
    /\ UNCHANGED <<dcList, numRows, tripVars, divelist_changed, statVars, printVars>>

\* DiveComputerModel::remove(index)
DiveComputerModel_remove(idx) ==
    /\ idx.row >= 0 /\ idx.row < numRows /\ idx.row < Len(mmValues(dcWorkingMap))
    /\ LET node == mmValues(dcWorkingMap)[idx.row + 1]
           map == mmRemove(dcWorkingMap, node.model, node)
       IN  /\ dcWorkingMap' = map
           /\ numRows' = Len(mmValues(map))
           /\ signals' = DCUpdateSignals(map, numRows)
    /\ lastOp' = [op |-> "remove", idx |-> idx, role |-> "", value |-> QInt(0), ret |-> FALSE]
    /\ UNCHANGED <<dcList, tripVars, divelist_changed, statVars, printVars>>

\* DiveComputerModel::dropWorkingList()
DiveComputerModel_dropWorkingList ==
    /\ signals' = <<>>
    /\ lastOp' = [op |-> "dropWorkingList", idx |-> InvalidIndex, role |-> "",
                  value |-> QInt(0), ret |-> FALSE]
    /\ UNCHANGED <<dcVars, tripVars, divelist_changed, statVars, printVars>>

\* A commit that marks the store whatever the maps hold
DiveComputerModel_keepWorkingList_AlwaysMark ==
    /\ divelist_changed' = TRUE
    /\ dcList' = dcWorkingMap
    /\ signals' = <<>>
    /\ lastOp' = [op |-> "keepWorkingList", idx |-> InvalidIndex, role |-> "",
                  value |-> QInt(0), ret |-> FALSE]
    /\ UNCHANGED <<dcWorkingMap, numRows, tripVars, statVars, printVars>>

\* DiveComputerModel::keepWorkingList(); QMap's operator!= compares the two
\* maps entry by entry in iteration order
DiveComputerModel_keepWorkingList ==
    /\ divelist_changed' = (divelist_changed \/ dcList # dcWorkingMap)
    /\ dcList' = dcWorkingMap
    /\ signals' = <<>>
    /\ lastOp' = [op |-> "keepWorkingList", idx |-> InvalidIndex, role |-> "",
                  value |-> QInt(0), ret |-> FALSE]
    /\ UNCHANGED <<dcWorkingMap, numRows, tripVars, statVars, printVars>>

\* QString::number(n, 16) for the ids in use
HexDigits == <<"0", "1", "2", "3", "4", "5", "6", "7", "8", "9", "a", "b", "c", "d", "e", "f">>
HexNumber(n) == HexDigits[n + 1]

\* DiveComputerModel::data(index, role): the QVariant of a text, or no value
\* (the decorations of the REMOVE column are not modelled)
DCValue(t, v) == [t |-> t, v |-> v]
DiveComputerModel_data(map, idx, role) ==
    LET node == mmValues(map)[idx.row + 1]
    IN  IF role \in {"DisplayRole", "EditRole"} /\ idx.column = "ID"
        THEN DCValue("string", "0x" \o HexNumber(node.deviceId))
        ELSE IF role \in {"DisplayRole", "EditRole"} /\ idx.column = "MODEL"
        THEN DCValue("model", node.model)
        ELSE IF role \in {"DisplayRole", "EditRole"} /\ idx.column = "NICKNAME"
        THEN DCValue("string", node.nickName)
        ELSE DCValue("invalid", "")

\* The indexes the view hands to remove()
DCRemoveIndexes == {createIndex(r, "REMOVE", NULL) : r \in 0..(numRows - 1)}

\* The setData() calls made on a row: an edit of the nickname, an edit of a
\* column that is not editable, a write of another role
DCCalls ==
    {[column |-> "NICKNAME", role |-> "EditRole"],
     [column |-> "MODEL", role |-> "EditRole"],
     [column |-> "NICKNAME", role |-> "DisplayRole"]}

\* --------------------------------------------------- YearlyStatisticsModel
\* A stats_t as this file reads it.
Interval(period, size, isYear, isTrip) ==
    [period |-> period, selection_size |-> size, is_year |-> isYear, is_trip |-> isTrip,
     total_time |-> 600 * size, combined_temp |-> 0, combined_count |-> 0,
     min_temp |-> 0, max_temp |-> 0]

\* The entry after the last one of an array: calloc()ed, all zero.
Terminator == Interval(0, 0, FALSE, FALSE)
StatAt(array, k) == IF k <= Len(array) THEN array[k] ELSE Terminator

\* YearStatisticsItem::YearStatisticsItem(interval)
NewStatItem(interval) ==
    [kind |-> "YearStatisticsItem", parent |-> NULL, children |-> <<>>,
     stats_interval |-> interval]

\* (mutant) one month too many
MoreMonthsInclusive(combined_months, size) == combined_months <= size

\* `combined_months < stats_yearly[i].selection_size`
MoreMonths(combined_months, size) == combined_months < size

\* The inner for loop: the months of the year item `y`, from `month` on.
RECURSIVE YearMonths(_, _, _, _, _, _)
YearMonths(h, y, monthly, month, combined_months, size) ==
    \* (the second test only keeps the operator total: the arrays
    \* process_all_dives makes never let the loop leave stats_monthly)
    IF ~MoreMonths(combined_months, size) \/ month > Len(monthly) + 1
    THEN [items |-> h, month |-> month]
    ELSE LET c == Len(h) + 1
             iChild == [NewStatItem(StatAt(monthly, month)) EXCEPT !.parent = y]
         IN  YearMonths(AppendChild(Append(h, iChild), y, c), y, monthly, month + 1,
                        combined_months + StatAt(monthly, month).selection_size, size)

\* The outer for loop over stats_yearly, from entry i on.
RECURSIVE Years(_, _, _, _, _)
Years(h, yearly, monthly, i, month) ==
    IF StatAt(yearly, i).period = 0
    THEN h
    ELSE LET y == Len(h) + 1
             withItem == Append(h, NewStatItem(yearly[i]))
             filled == YearMonths(withItem, y, monthly, month, 0, yearly[i].selection_size)
             linked == [AppendChild(filled.items, rootItem, y) EXCEPT ![y].parent = rootItem]
         IN  Years(linked, yearly, monthly, i + 1, filled.month)

\* The by-trip part: one node for stats_by_trip[0], the others below it.
TripStats(h, byTrip) ==
    IF ~StatAt(byTrip, 1).is_trip
    THEN h
    ELSE LET t == Len(h) + 1
             n == CHOOSE n \in 1..(Len(byTrip) + 1) :
                     /\ ~StatAt(byTrip, n + 1).is_trip
                     /\ \A k \in 2..n : byTrip[k].is_trip
             withItem == Append(h, NewStatItem(byTrip[1]))
             children == [k \in 1..(n - 1) |-> [NewStatItem(byTrip[k + 1]) EXCEPT !.parent = t]]
             withChildren == [withItem \o children EXCEPT
                                 ![t].children = [k \in 1..(n - 1) |-> t + k]]
         IN  [AppendChild(withChildren, rootItem, t) EXCEPT ![t].parent = rootItem]

\* YearlyStatisticsModel::update_yearly_stats() on the tree h
update_yearly_stats(h, yearly, monthly, byTrip) ==
    TripStats(Years(h, yearly, monthly, 1, 1), byTrip)

\* YearlyStatisticsModel::YearlyStatisticsModel(): the statistics window being
\* opened makes a new model, whose constructor is the caller of
\* update_yearly_stats().
YearlyStatisticsModel_ctor ==
    /\ statItems' = update_yearly_stats(NewTree(NewStatItem(Terminator)),
                                        stats_yearly, stats_monthly, stats_by_trip)
    /\ signals' = <<>>
    /\ lastOp' = [op |-> "YearlyStatisticsModel", idx |-> InvalidIndex, role |-> "",
                  value |-> QInt(0), ret |-> FALSE]
    /\ UNCHANGED <<stats_yearly, stats_monthly, stats_by_trip, cellItem, cell>>
    /\ UNCHANGED <<tripVars, divelist_changed, dcVars, printVars>>

\* The statistics being computed from the dive log: every year has the months
\* its dives fall into, every month at least one dive, and the dive count of a
\* year is the sum of its months'.  The by-trip array starts with the entry of
\* all trips together.
Sum(seq) ==
    LET RECURSIVE S(_)
        S(k) == IF k = 0 THEN 0 ELSE seq[k] + S(k - 1)
    IN  S(Len(seq))

Flatten(seqs) ==
    LET RECURSIVE F(_)
        F(k) == IF k = 0 THEN <<>> ELSE F(k - 1) \o seqs[k]
    IN  F(Len(seqs))

TwelveMonths == [k \in 1..12 |-> 1]

MonthCounts == {1, 2}

YearChoices ==
    UNION {[1..n -> MonthCounts] : n \in 1..MaxMonths} \cup {TwelveMonths}

process_all_dives ==
    /\ stats_yearly = <<>>
    /\ \E ny \in 1..MaxYears :
       \E years \in [1..ny -> YearChoices] :
       \E nt \in 0..MaxStatTrips :
          /\ stats_yearly' = [k \in 1..ny |-> Interval(2000 + k, Sum(years[k]), TRUE, FALSE)]
          /\ stats_monthly' = LET counts == Flatten(years)
                              IN  [k \in 1..Len(counts) |-> Interval(k, counts[k], FALSE, FALSE)]
          /\ stats_by_trip' = IF nt = 0
                              THEN <<>>
                              ELSE [k \in 1..(nt + 1) |->
                                      Interval(0, (IF k = 1 THEN nt ELSE 1), FALSE, TRUE)]
    /\ signals' = <<>>
    /\ lastOp' = [op |-> "process_all_dives", idx |-> InvalidIndex, role |-> "",
                  value |-> QInt(0), ret |-> FALSE]
    /\ UNCHANGED <<statItems, cellItem, cell>>
    /\ UNCHANGED <<tripVars, divelist_changed, dcVars, printVars>>

\* ------------------------------------------------- YearStatisticsItem::data
StatColumns ==
    {"YEAR", "DIVES", "TOTAL_TIME", "AVERAGE_TIME", "SHORTEST_TIME", "LONGEST_TIME",
     "AVG_DEPTH", "MIN_DEPTH", "MAX_DEPTH", "AVG_SAC", "MIN_SAC", "MAX_SAC",
     "AVG_TEMP", "MIN_TEMP", "MAX_TEMP"}
StatRoles == {"DisplayRole", "FontRole", "ToolTipRole"}

\* A QVariant a cell yields: no value, or a kind of text with the number it
\* was made from; DivFault is the call not returning (a division by zero).
NoValue == [kind |-> "invalid", n |-> 0]
Cell(kind, n) == [kind |-> kind, n |-> n]
DivFault == [kind |-> "SIGFPE", n |-> 0]

\* get_temp_units(): millikelvin to whole degrees Celsius
get_temp_units(mkelvin) == (mkelvin - 273150) \div 1000

\* `total_time.seconds / selection_size`: an integer division; by zero it is
\* undefined, and the call either faults or goes on with some quotient.
AverageTime(total, size) ==
    IF size # 0 THEN {Cell("minutes", total \div size)} ELSE {DivFault, Cell("minutes", 0)}

\* `if (combined_temp && combined_count)`
AverageTemp(temp, count) ==
    IF temp # 0 /\ count # 0 THEN {Cell("number", temp \div count)} ELSE {NoValue}

\* YearStatisticsItem::data(column, role): the values the call can yield
YearStatisticsItem_data(si, column, role) ==
    IF role = "FontRole" THEN {Cell("font", IF si.is_year THEN 1 ELSE 0)}
    ELSE IF role # "DisplayRole" THEN {NoValue}
    ELSE CASE column = "YEAR" -> {IF si.is_trip THEN Cell("location", 0) ELSE Cell("period", si.period)}
           [] column = "DIVES" -> {Cell("int", si.selection_size)}
           [] column = "TOTAL_TIME" -> {Cell("time", si.total_time)}
           [] column = "AVERAGE_TIME" -> AverageTime(si.total_time, si.selection_size)
           [] column = "AVG_TEMP" -> AverageTemp(si.combined_temp, si.combined_count)
           [] column = "MIN_TEMP" ->
                 {IF get_temp_units(si.min_temp) > -100
                  THEN Cell("number", get_temp_units(si.min_temp)) ELSE NoValue}
           [] column = "MAX_TEMP" ->
                 {IF get_temp_units(si.max_temp) > -100
                  THEN Cell("number", get_temp_units(si.max_temp)) ELSE NoValue}
           [] OTHER -> {Cell("text", 0)}

\* The intervals an item is made from.
CellIntervals ==
    {si \in [period : {2001}, selection_size : 0..MaxCellCount,
             is_year : BOOLEAN, is_trip : BOOLEAN,
             total_time : {0, 1200}, combined_temp : {0, 40}, combined_count : {0, 2},
             min_temp : {0, 293150}, max_temp : {0, 293150}] :
        ~(si.is_year /\ si.is_trip) /\ si.min_temp = si.max_temp}

\* YearStatisticsItem::YearStatisticsItem(interval)
YearStatisticsItem_ctor(interval) ==
    /\ cellItem' = <<NewStatItem(interval)>>
    /\ cell' = NoValue
    /\ signals' = <<>>
    /\ lastOp' = [op |-> "YearStatisticsItem", idx |-> InvalidIndex, role |-> "",
                  value |-> QInt(0), ret |-> FALSE]
    /\ UNCHANGED <<stats_yearly, stats_monthly, stats_by_trip, statItems>>
    /\ UNCHANGED <<tripVars, divelist_changed, dcVars, printVars>>

\* A view asking the item for a cell
StatData(column, role) ==
    /\ cellItem # <<>>
    /\ cell' \in YearStatisticsItem_data(cellItem[1].stats_interval, column, role)
    /\ signals' = <<>>
    /\ lastOp' = [op |-> "data", idx |-> createIndex(0, column, NULL), role |-> role,
                  value |-> QInt(0), ret |-> FALSE]
    /\ UNCHANGED <<stats_yearly, stats_monthly, stats_by_trip, statItems, cellItem>>
    /\ UNCHANGED <<tripVars, divelist_changed, dcVars, printVars>>

\* ---------------------------------------------------------- TablePrintModel
White == "0xffffffff"

\* `new struct TablePrintItem()` with colorBackground set; a text is the
\* sequence of its characters
NewPrintItem ==
    [number |-> <<>>, date |-> <<>>, depth |-> <<>>, duration |-> <<>>, divemaster |-> <<>>,
     buddy |-> <<>>, location |-> <<>>, colorBackground |-> White]

\* QList::insert(i, value)
qlInsert(seq, i, x) ==
    IF i <= 0 THEN <<x>> \o seq
    ELSE IF i >= Len(seq) THEN Append(seq, x)
    ELSE SubSeq(seq, 1, i) \o <<x>> \o SubSeq(seq, i + 1, Len(seq))

PrintSnap(sig, n, l) == [sig |-> sig, rowCount |-> n, rows |-> l]

\* TablePrintModel::insertRow(index)
TablePrintModel_insertRow(index) ==
    /\ rows < MaxRows
    /\ LET newList == IF index = -1 THEN Append(list, NewPrintItem)
                      ELSE qlInsert(list, index, NewPrintItem)
       IN  /\ list' = newList
           /\ rows' = rows + 1
           /\ signals' = <<PrintSnap("call", rows, list),
                           PrintSnap("beginInsertRows", rows, list),
                           PrintSnap("endInsertRows", rows, newList),
                           PrintSnap("return", rows + 1, newList)>>
    /\ lastOp' = [op |-> "insertRow", idx |-> createIndex(index, "", NULL), role |-> "",
                  value |-> QInt(0), ret |-> FALSE]
    /\ UNCHANGED <<tripVars, divelist_changed, dcVars, statVars>>

\* TablePrintModel::callReset()
TablePrintModel_callReset ==
    /\ signals' = <<PrintSnap("call", rows, list),
                    PrintSnap("beginResetModel", rows, list),
                    PrintSnap("endResetModel", rows, list),
                    PrintSnap("return", rows, list)>>
    /\ lastOp' = [op |-> "callReset", idx |-> InvalidIndex, role |-> "", value |-> QInt(0),
                  ret |-> FALSE]
    /\ UNCHANGED <<tripVars, divelist_changed, dcVars, statVars, printVars>>

\* The seven columns of the table, column 0 first: each shows the field of its
\* name.
PrintFields == <<"number", "date", "depth", "duration", "divemaster", "buddy", "location">>
PrintColumns == {PrintFields[k] : k \in 1..Len(PrintFields)}
columnNumber(name) == CHOOSE k \in 0..(Len(PrintFields) - 1) : PrintFields[k + 1] = name

\* `const int maxLines = 15`
maxLines == 15

\* QString::left(n)
left(str, n) == IF n < 0 \/ n >= Len(str) THEN str ELSE SubSeq(str, 1, n)

\* The loop of case 6: i is the loop's index (from 0), count the newlines met
RECURSIVE truncateLines(_, _, _)
truncateLines(str, i, count) ==
    IF i >= Len(str) THEN str
    ELSE IF str[i + 1] # "\n" THEN truncateLines(str, i + 1, count)
    ELSE IF count + 1 > maxLines THEN left(str, i - 1)
    ELSE truncateLines(str, i + 1, count + 1)

\* The switch of setData: no case ends in a break, so the case of the column
\* and every case after it run.
PrintWrite(item, column, text) ==
    [f \in DOMAIN item |->
        IF f = "colorBackground" THEN item[f]
        ELSE IF columnNumber(f) < columnNumber(column) THEN item[f]
        ELSE IF f = "location" THEN truncateLines(text, 0, 0)
        ELSE text]

\* A QVariant carrying a colour; QVariant::value<unsigned int>()
QColorValue(c) == [t |-> "uint", i |-> 0, s |-> c]
Red == "0xffff0000"
toUInt(v) == IF v.t = "uint" THEN v.s ELSE "0x0"

\* What TablePrintModel::setData returns and the list it leaves
PrintSetData(l, idx, value, role) ==
    IF ~isValid(idx) THEN [ret |-> FALSE, list |-> l]
    ELSE IF role = "DisplayRole"
    THEN [ret |-> TRUE,
          list |-> [l EXCEPT ![idx.row + 1] = PrintWrite(@, idx.column, toString(value))]]
    ELSE IF role = "BackgroundRole"
    THEN [ret |-> TRUE,
          list |-> [l EXCEPT ![idx.row + 1].colorBackground = toUInt(value)]]
    ELSE [ret |-> FALSE, list |-> l]

\* TablePrintModel::setData(index, value, role)
TablePrintModel_setData(idx, value, role) ==
    /\ list' = PrintSetData(list, idx, value, role).list
    /\ signals' = <<>>
    /\ lastOp' = [op |-> "PrintSetData", idx |-> idx, role |-> role, value |-> value,
                  ret |-> PrintSetData(list, idx, value, role).ret]
    /\ UNCHANGED <<rows, tripVars, divelist_changed, dcVars, statVars>>

\* TablePrintModel::data(index, role): the QVariant of a text, of a colour, of
\* a font, or no value
PrintValue(t, v, bold) == [t |-> t, v |-> v, bold |-> bold]
TablePrintModel_data(l, idx, role) ==
    IF ~isValid(idx) THEN PrintValue("invalid", <<>>, FALSE)
    ELSE IF role = "BackgroundRole"
    THEN PrintValue("color", l[idx.row + 1].colorBackground, FALSE)
    ELSE IF role = "DisplayRole"
    THEN PrintValue("string", l[idx.row + 1][idx.column], FALSE)
    ELSE IF role = "FontRole"
    THEN PrintValue("font", <<>>, idx.row = 0 /\ columnNumber(idx.column) = 0)
    ELSE PrintValue("invalid", <<>>, FALSE)

\* The indexes QAbstractTableModel::index() makes for the rows of the table
PrintIndexes ==
    {InvalidIndex} \cup {createIndex(r, c, NULL) : r \in 0..(rows - 1), c \in PrintColumns}

\* The calls made on the table: a short text on every column, and the other
\* roles.
ShortText == <<"a">>
PrintCalls ==
    {[role |-> "DisplayRole", value |-> QStr(ShortText)],
     [role |-> "EditRole", value |-> QStr(ShortText)],
     [role |-> "FontRole", value |-> QStr(ShortText)],
     [role |-> "BackgroundRole", value |-> QColorValue(Red)]}

\* The texts given to column 6: newlines lines of lineLen characters each, then
\* tail characters.
RECURSIVE Repeat(_, _)
Repeat(str, n) == IF n = 0 THEN <<>> ELSE str \o Repeat(str, n - 1)
TextOf(newlines, lineLen, tail) ==
    Repeat(Repeat(<<"a">>, lineLen) \o <<"\n">>, newlines) \o Repeat(<<"b">>, tail)
LocationTexts ==
    {TextOf(n, w, t) : n \in 0..MaxNewlines, w \in 0..MaxLineLen, t \in 0..MaxTail}

\* -------------------------------------------------------- ProfilePrintModel
\* rowCount() and columnCount()
ProfileRows == 12
ProfileColumns == 5
ProfileRoles == {"DisplayRole", "FontRole", "TextAlignmentRole", "ToolTipRole"}

\* The text of a cell for the display role, for the dive given to setDive():
\* a fixed label, or the name of the value of the dive the text is made from;
\* "" is QString().
ProfileText(row, col) ==
    IF row = 0 /\ col = 0 THEN "Dive #%1 - %2"
    ELSE IF row = 0 /\ col = 3 THEN "Max depth: %1 %2"
    ELSE IF row = 1 /\ col = 0 THEN "location"
    ELSE IF row = 1 /\ col = 3 THEN "Duration: %1 min"
    ELSE IF row = 2 /\ col = 0 THEN "Gas used:"
    ELSE IF row = 2 /\ col = 2 THEN "Tags:"
    ELSE IF row = 2 /\ col = 3 THEN "SAC:"
    ELSE IF row = 2 /\ col = 4 THEN "Weights:"
    ELSE IF col = 0 /\ row = 6 THEN "Notes:"
    ELSE IF col = 0 /\ row = 7 THEN "notes"
    ELSE IF row = 4 /\ col = 0 THEN "Divemaster:"
    ELSE IF row = 4 /\ col = 1 THEN "Buddy:"
    ELSE IF row = 4 /\ col = 2 THEN "Suit:"
    ELSE IF row = 4 /\ col = 3 THEN "Viz:"
    ELSE IF row = 4 /\ col = 4 THEN "Rating:"
    ELSE IF row = 3 /\ col = 0 THEN "gases"
    ELSE IF row = 3 /\ col = 2 THEN "tags"
    ELSE IF row = 3 /\ col = 3 THEN "sac"
    ELSE IF row = 3 /\ col = 4 THEN "weight"
    ELSE IF row = 5 /\ col = 0 THEN "divemaster"
    ELSE IF row = 5 /\ col = 1 THEN "buddy"
    ELSE IF row = 5 /\ col = 2 THEN "suit"
    ELSE IF row = 5 /\ col = 3 THEN "visibility"
    ELSE IF row = 5 /\ col = 4 THEN "rating"
    ELSE ""

\* ProfilePrintModel::data(index, role)
ProfilePrintModel_data(idx, role) ==
    IF role = "DisplayRole"
    THEN PrintValue("string", ProfileText(idx.row, idx.column), FALSE)
    ELSE IF role = "FontRole"
    THEN PrintValue("font", "", idx.row = 0 /\ idx.column = 0)
    ELSE IF role = "TextAlignmentRole"
    THEN PrintValue("align",
                    IF idx.row < 2 /\ idx.column = 4
                    THEN "AlignRight|AlignVCenter" ELSE "AlignLeft",
                    FALSE)
    ELSE PrintValue("invalid", "", FALSE)

\* A view reading a cell of the profile table
ProfileData(row, col, role) ==
    /\ cell' = ProfilePrintModel_data(createIndex(row, col, NULL), role)
    /\ signals' = <<>>
    /\ lastOp' = [op |-> "ProfileData", idx |-> createIndex(row, col, NULL), role |-> role,
                  value |-> QInt(0), ret |-> FALSE]
    /\ UNCHANGED <<tripVars, divelist_changed, dcVars, printVars>>
    /\ UNCHANGED <<stats_yearly, stats_monthly, stats_by_trip, statItems, cellItem>>

\* -------------------------------------------------------------- specification
\* DiveTripModel::DiveTripModel() sets the column count only: currentLayout is
\* not initialised and holds either value until setLayout() is called.  The
\* autogroup flag is a preference read before the model exists.
Init ==
    /\ dive_table = <<>>
    /\ autogroup \in BOOLEAN
    /\ preexisting = 0
    /\ divelist_changed = FALSE
    /\ currentLayout \in {"TREE", "LIST"}
    /\ items = NewTree(NewItem("TreeItem", 0, NULL))
    /\ trips = <<>>
    /\ builds = 0
    /\ dcList = <<>>
    /\ dcWorkingMap = <<>>
    /\ numRows = 0
    /\ stats_yearly = <<>>
    /\ stats_monthly = <<>>
    /\ stats_by_trip = <<>>
    /\ statItems = NewTree(NewStatItem(Terminator))
    /\ cellItem = <<>>
    /\ cell = NoValue
    /\ list = <<>>
    /\ rows = 0
    /\ signals = <<>>
    /\ lastOp = [op |-> "ctor", idx |-> InvalidIndex, role |-> "", value |-> QInt(0), ret |-> FALSE]

NextTrip ==
    \/ LoadDives(MaxDives, 0..MaxTrips, {0})
    \/ setupModelData
    \/ \E layout \in {"TREE", "LIST"} : setLayout(layout, MaxBuilds)

SpecTrip == Init /\ [][NextTrip]_vars

\* The other views do not read the dive list's flags: they are held fixed there.
InitViews == Init /\ autogroup = FALSE /\ currentLayout = "TREE"

\* The dive list being edited
NextEdit ==
    \/ LoadDives(MaxEditDives, {0, 1}, 0..MaxNumber)
    \/ \E layout \in {"TREE", "LIST"} : setLayout(layout, MaxEditBuilds)
    \/ \E idx \in CallIndexes, call \in EditCalls :
          DiveTripModel_setData([idx EXCEPT !.column = call.column], call.value, call.role)

SpecEdit == InitViews /\ [][NextEdit]_vars

\* The dive computer dialog
NextDC ==
    \/ \E model \in 1..MaxModels, deviceId \in 1..MaxDevices, nick \in {""} :
          create_device_node(model, deviceId, nick)
    \/ DiveComputerModel_ctor
    \/ DiveComputerModel_update
    \/ \E r \in 0..(numRows - 1), call \in DCCalls, nick \in NickNames :
          DiveComputerModel_setData(createIndex(r, call.column, NULL), QStr(nick), call.role)
    \/ \E idx \in DCRemoveIndexes : DiveComputerModel_remove(idx)
    \/ DiveComputerModel_dropWorkingList
    \/ DiveComputerModel_keepWorkingList

SpecDC == InitViews /\ [][NextDC]_vars

\* The yearly statistics tree
NextStats ==
    \/ process_all_dives
    \/ YearlyStatisticsModel_ctor

SpecStats == InitViews /\ [][NextStats]_vars

\* The cells of one statistics item
NextCell ==
    \/ \E interval \in CellIntervals : YearStatisticsItem_ctor(interval)
    \/ \E column \in StatColumns, role \in StatRoles : StatData(column, role)

SpecCell == InitViews /\ [][NextCell]_vars

\* The table print model
NextPrint ==
    \/ \E index \in -1..MaxRows : TablePrintModel_insertRow(index)
    \/ TablePrintModel_callReset
    \/ \E idx \in PrintIndexes, call \in PrintCalls :
          TablePrintModel_setData(idx, call.value, call.role)

SpecPrint == InitViews /\ [][NextPrint]_vars

\* The location column being written on a table of one row
NextLocation ==
    \/ rows = 0 /\ TablePrintModel_insertRow(-1)
    \/ \E text \in LocationTexts :
          rows > 0 /\
          TablePrintModel_setData(createIndex(0, "location", NULL), QStr(text), "DisplayRole")

SpecLocation == InitViews /\ [][NextLocation]_vars

\* The profile table being read
NextProfile ==
    \E row \in 0..(ProfileRows - 1), col \in 0..(ProfileColumns - 1), role \in ProfileRoles :
        ProfileData(row, col, role)

SpecProfile == InitViews /\ [][NextProfile]_vars

\* ===================================================================== claims
\* The nodes of a tree and the positions a node is held at.
Nodes(h) == 1..Len(h)
Range(seq) == {seq[k] : k \in 1..Len(seq)}
Places(h, n) ==
    {<<p, k>> \in Nodes(h) \X Nodes(h) : k <= Len(h[p].children) /\ h[p].children[k] = n}
IsBuild == lastOp.op \in {"setupModelData", "setLayout"}

\* ------------------------------------------------------------------------ C1
SnapChanged(a, b) == a.rowCount # b.rowCount \/ a.rows # b.rows
InsertBracket(a, b) ==
    a.sig = "beginInsertRows" /\ b.sig = "endInsertRows" /\ b.rowCount >= a.rowCount
RemoveBracket(a, b) ==
    a.sig = "beginRemoveRows" /\ b.sig = "endRemoveRows" /\ b.rowCount <= a.rowCount

\* C1: during a call of setupModelData, update or insertRow, what rowCount()
\* returns and the row sequence change only between an announce-before and the
\* matching announce-after: two consecutive observations of the call differ
\* only when they are the begin and the end of one insert or remove bracket.
C1_MutationInsideBracket ==
    \A k \in 1..(Len(signals) - 1) :
        SnapChanged(signals[k], signals[k + 1]) =>
            \/ InsertBracket(signals[k], signals[k + 1])
            \/ RemoveBracket(signals[k], signals[k + 1])

\* ------------------------------------------------------------------------ C2
RowIsPosition(h) ==
    \A p \in Nodes(h) : \A k \in 1..Len(h[p].children) :
        TreeItem_row(h, h[p].children[k]) = k - 1

\* C2: after any sequence of view builds, row() of every non-root node is the
\* node's index in the child sequence of the node that holds it, in the dive
\* list tree and in the statistics tree.
C2_RowIsPosition == RowIsPosition(items) /\ RowIsPosition(statItems)

\* ------------------------------------------------------------------------ C3
ParentIsHolder(h) ==
    \A n \in Nodes(h) \ {rootItem} :
        /\ Cardinality(Places(h, n)) = 1
        /\ \A pl \in Places(h, n) : h[n].parent = pl[1]

ParentOfIndex(h, cols) ==
    \A P \in {InvalidIndex} \cup TopIndexes(h, cols, "NR") :
        \A r \in 0..(TreeModel_rowCount(h, P) - 1) :
            LET A == TreeModel_index(h, cols, r, "NR", P)
            IN  /\ isValid(A)
                /\ TreeModel_parent(h, A).ptr = P.ptr
                /\ isValid(TreeModel_parent(h, A)) <=> isValid(P)

\* C3: after any view build every non-root node is held exactly once and its
\* parent back-reference is the node holding it; so parent(index(r, c, P)) is P,
\* invalid exactly for a top-level row, and a dive below a trip has the trip as
\* its parent.
C3_ParentIsHolder == ParentIsHolder(items) /\ ParentOfIndex(items, DiveTripColumns)

\* ------------------------------------------------------------------------ C4
\* The DiveItems and TripItems a consumer can reach: top-level rows and theirs.
Reachable(h) ==
    Range(h[rootItem].children)
    \cup UNION {Range(h[c].children) : c \in Range(h[rootItem].children)}
DiveNodes(h, id) == {n \in Reachable(h) : h[n].kind = "DiveItem" /\ h[n].diveId = id}
TripNodes(h, trip) == {n \in Reachable(h) : h[n].kind = "TripItem" /\ h[n].trip = trip}
StoreTrips == {dive_table[k].divetrip : k \in 1..Len(dive_table)} \ {NULL}
ExpectedTopRows ==
    IF currentLayout = "LIST"
    THEN Len(dive_table)
    ELSE Cardinality(StoreTrips)
         + Cardinality({k \in 1..Len(dive_table) : dive_table[k].divetrip = NULL})

\* C4: setupModelData is a full rebuild: after any number of calls the tree
\* holds exactly the nodes of the current dive store, every dive once and every
\* trip at most one Trip node, so a second call with the same store and layout
\* leaves the same top-level row count as the first.
C4_FullRebuild ==
    IsBuild =>
        /\ \A k \in 1..Len(dive_table) : Cardinality(DiveNodes(items, dive_table[k].id)) = 1
        /\ \A t \in 1..MaxTrips : Cardinality(TripNodes(items, t)) <= 1
        /\ TreeModel_rowCount(items, InvalidIndex) = ExpectedTopRows

\* ------------------------------------------------------------------------ C5
\* The top-level rows as a consumer reads them: a dive, or a trip and its dives.
Shape(h) ==
    [k \in 1..Len(h[rootItem].children) |->
        LET n == h[rootItem].children[k]
        IN  [kind |-> h[n].kind, trip |-> h[n].trip, diveId |-> h[n].diveId,
             dives |-> [j \in 1..Len(h[n].children) |-> h[h[n].children[j]].diveId]]]

DiveRow(id) == [kind |-> "DiveItem", trip |-> NULL, diveId |-> id, dives |-> <<>>]
TripRow(trip, dives) == [kind |-> "TripItem", trip |-> trip, diveId |-> 0, dives |-> dives]

\* Where the reverse walk first meets the dive or the trip of a top-level row:
\* the last store position of the dive, or of any dive of the trip.
FirstMet(row) ==
    CHOOSE k \in 1..Len(dive_table) :
        /\ IF row.kind = "DiveItem"
           THEN dive_table[k].id = row.diveId
           ELSE dive_table[k].divetrip = row.trip
        /\ \A j \in (k + 1)..Len(dive_table) :
              IF row.kind = "DiveItem"
              THEN dive_table[j].id # row.diveId
              ELSE dive_table[j].divetrip # row.trip

Decreasing(seq) == \A k \in 1..(Len(seq) - 1) : seq[k] > seq[k + 1]
PositionOf(id) == get_dive_by_uniq_id(dive_table, id)
FirstGroupedBuild == IsBuild /\ builds = 1 /\ currentLayout = "TREE"
TripsInStore == [k \in 1..Len(dive_table) |-> dive_table[k].divetrip]

\* C5: the grouped layout built on an empty view lists the top-level rows in
\* the order the reverse walk of the store first meets a trip-less dive or a
\* trip, has one Trip node per trip, and lists the dives of a trip in reverse
\* store order; the store [d1(T1), d2(T1), d3(none), d4(T2)] gives
\* [T2{d4}, d3, T1{d2, d1}].
C5_ReverseWalkOrder ==
    FirstGroupedBuild =>
        LET shape == Shape(items)
        IN  /\ \A k \in 1..Len(shape) :
                  IF shape[k].kind = "DiveItem"
                  THEN /\ PositionOf(shape[k].diveId) # 0
                       /\ dive_table[PositionOf(shape[k].diveId)].divetrip = NULL
                  ELSE /\ shape[k].trip \in StoreTrips
                       /\ Decreasing([j \in 1..Len(shape[k].dives) |->
                                         PositionOf(shape[k].dives[j])])
                       /\ Range(shape[k].dives) =
                             {dive_table[j].id : j \in {i \in 1..Len(dive_table) :
                                                         dive_table[i].divetrip = shape[k].trip}}
            /\ \A k \in 1..Len(dive_table) :
                  IF dive_table[k].divetrip = NULL
                  THEN \E j \in 1..Len(shape) : shape[j] = DiveRow(dive_table[k].id)
                  ELSE \E j \in 1..Len(shape) :
                          shape[j].kind = "TripItem" /\ shape[j].trip = dive_table[k].divetrip
            /\ Decreasing([k \in 1..Len(shape) |-> FirstMet(shape[k])])
            /\ TripsInStore = <<1, 1, 0, 2>> =>
                  shape = <<TripRow(2, <<4>>), DiveRow(3), TripRow(1, <<2, 1>>)>>

\* The documented example, built.
C5_ExampleBuilt ==
    /\ FirstGroupedBuild
    /\ TripsInStore = <<1, 1, 0, 2>>
    /\ Shape(items) = <<TripRow(2, <<4>>), DiveRow(3), TripRow(1, <<2, 1>>)>>

\* ------------------------------------------------------------------------ C6
\* A call of DiveTripModel::setData on a dive row, and what it is about.
OnDive(op) == op.op = "setData" /\ op.idx.ptr # NULL /\ items[op.idx.ptr].kind = "DiveItem"
NumberEdit(op) == OnDive(op) /\ op.role = "EditRole" /\ op.idx.column = "NR"
TargetId(op) == items[op.idx.ptr].diveId
TargetPos(op) == get_dive_by_uniq_id(dive_table, TargetId(op))
UsedByOther(op, v) ==
    \E k \in 1..Len(dive_table) : dive_table[k].id # TargetId(op) /\ dive_table[k].number = v
NumbersKept(except) ==
    /\ Len(dive_table') = Len(dive_table)
    /\ \A k \in (1..Len(dive_table)) \ except : dive_table'[k] = dive_table[k]

C6_Step ==
    NumberEdit(lastOp') =>
        LET v == toInt(lastOp'.value)
        IN  /\ UsedByOther(lastOp', v) => ~lastOp'.ret /\ NumbersKept({})
            /\ (v # 0 /\ \A k \in 1..Len(dive_table) : dive_table[k].number # v) =>
                  /\ lastOp'.ret
                  /\ dive_table'[TargetPos(lastOp')].number = v
                  /\ dive_table'[TargetPos(lastOp')].id = TargetId(lastOp')
                  /\ NumbersKept({TargetPos(lastOp')})

\* C6: an edit of the number column of a dive fails and changes no number when
\* another dive has the proposed number; it succeeds and changes the number of
\* the addressed dive only when the number is not zero and no dive has it.
C6_EditNumber == [][C6_Step]_vars

\* An edit was refused because another dive has the number.
C6_DuplicateRefused ==
    /\ NumberEdit(lastOp)
    /\ toInt(lastOp.value) # 0
    /\ UsedByOther(lastOp, toInt(lastOp.value))
    /\ dive_table[TargetPos(lastOp)].number # toInt(lastOp.value)
    /\ ~lastOp.ret

\* ------------------------------------------------------------------------ C7
\* C7 as written: a number edit on a dive is refused only when the proposed
\* number is not zero and another dive has it; in every other case (zero, the
\* dive's own number) the number is stored, the store marked dirty and the call
\* succeeds.
C7_RefusedOnlyForDuplicate ==
    NumberEdit(lastOp) =>
        LET v == toInt(lastOp.value)
        IN  IF v # 0 /\ UsedByOther(lastOp, v)
            THEN ~lastOp.ret
            ELSE lastOp.ret /\ dive_table[TargetPos(lastOp)].number = v /\ divelist_changed

C7_Step ==
    NumberEdit(lastOp') =>
        LET v == toInt(lastOp'.value)
        IN  IF v = 0 \/ \E k \in 1..Len(dive_table) : dive_table[k].number = v
            THEN ~lastOp'.ret /\ dive_table' = dive_table
                 /\ divelist_changed' = divelist_changed
            ELSE lastOp'.ret /\ divelist_changed'
                 /\ dive_table' = [dive_table EXCEPT ![TargetPos(lastOp')].number = v]

\* C7 amended: a number edit on a dive is refused when the proposed number is
\* zero or is the number of any dive of the store, the edited dive included,
\* and then changes nothing; in every other case the number is stored, the
\* store marked dirty and the call succeeds.
C7_RefusedForZeroOrUsed == [][C7_Step]_vars

\* An edit to zero was refused.
C7_ZeroRefused ==
    /\ NumberEdit(lastOp)
    /\ lastOp.value = QInt(0)
    /\ dive_table[TargetPos(lastOp)].number # 0
    /\ ~lastOp.ret

\* ------------------------------------------------------------------------ C8
DiveListNotEditable(op) ==
    /\ op.op = "setData"
    /\ op.idx.ptr # NULL
    /\ \/ items[op.idx.ptr].kind = "TripItem"
       \/ op.idx.column # "NR"
       \/ op.role # "EditRole"
DeviceNotEditable(op) ==
    op.op = "DCsetData" /\ (op.idx.column # "NICKNAME" \/ op.role # "EditRole")

C8_Step ==
    /\ DiveListNotEditable(lastOp') =>
          ~lastOp'.ret /\ dive_table' = dive_table /\ divelist_changed' = divelist_changed
    /\ DeviceNotEditable(lastOp') =>
          ~lastOp'.ret /\ dcWorkingMap' = dcWorkingMap /\ divelist_changed' = divelist_changed

\* C8: in the dive list and in the device list a setData call on a column that
\* is not editable, on a trip row, or with a role other than the edit role
\* fails and leaves the dive store, the working device map and the dirty flag
\* as they were.
C8_NotEditableRefused == [][C8_Step]_vars

\* ------------------------------------------------------------------------ C9
StatBuilt == lastOp.op = "YearlyStatisticsModel"
YearNodes(h) == SelectSeq(h[rootItem].children, LAMBDA n : ~h[n].stats_interval.is_trip)
TopTripNodes(h) == SelectSeq(h[rootItem].children, LAMBDA n : h[n].stats_interval.is_trip)
ChildIntervals(h, n) == [k \in 1..Len(h[n].children) |-> h[h[n].children[k]].stats_interval]
Sizes(intervals) == [k \in 1..Len(intervals) |-> intervals[k].selection_size]
Prefix(seq, n) == SubSeq(seq, 1, n)

\* C9: update_yearly_stats gives every year, in order, the next entries of the
\* monthly array as children and stops at the first one with which the dive
\* counts of the year's months reach the year's dive count; every consumed
\* month is below one year only; the trip aggregates are below one top-level
\* trip node of their own; a year of 12 dives over twelve months of one dive
\* has 12 children.
C9_GreedyMonths ==
    StatBuilt =>
        LET h == statItems
            years == YearNodes(h)
            months == [k \in 1..Len(years) |-> ChildIntervals(h, years[k])]
            consumed == Flatten(months)
        IN  /\ [k \in 1..Len(years) |-> h[years[k]].stats_interval] = stats_yearly
            /\ Len(consumed) <= Len(stats_monthly)
            /\ consumed = Prefix(stats_monthly, Len(consumed))
            /\ \A k \in 1..Len(years) :
                  LET sizes == Sizes(months[k])
                      want == stats_yearly[k].selection_size
                  IN  /\ Sum(sizes) >= want
                      /\ Len(sizes) > 0 => Sum(Prefix(sizes, Len(sizes) - 1)) < want
                      /\ \A j \in 1..Len(sizes) : ~months[k][j].is_trip
            /\ Cardinality(Places(h, rootItem)) = 0
            /\ \A n \in Nodes(h) \ {rootItem} : Cardinality(Places(h, n)) = 1
            /\ Len(TopTripNodes(h)) = (IF stats_by_trip = <<>> THEN 0 ELSE 1)
            /\ \A k \in 1..Len(TopTripNodes(h)) :
                  /\ h[TopTripNodes(h)[k]].stats_interval = stats_by_trip[1]
                  /\ ChildIntervals(h, TopTripNodes(h)[k])
                        = SubSeq(stats_by_trip, 2, Len(stats_by_trip))
                  /\ h[rootItem].children[Len(h[rootItem].children)] = TopTripNodes(h)[k]
            /\ (Len(stats_yearly) >= 1 /\ stats_yearly[1].selection_size = 12
                 /\ Prefix(Sizes(stats_monthly), 12) = TwelveMonths) =>
                  Len(months[1]) = 12

\* The year of twelve months of one dive each, built.
C9_TwelveBuilt ==
    /\ StatBuilt
    /\ stats_yearly[1].selection_size = 12
    /\ Sizes(stats_monthly) = TwelveMonths
    /\ Len(statItems[statItems[rootItem].children[1]].children) = 12

\* ----------------------------------------------------------------------- C10
\* C10: YearStatisticsItem::data with the display role never divides by zero:
\* the average time cell of an interval without dives has no value, and so has
\* the average temperature cell of an interval without temperature samples.
C10_NoDivisionByZero ==
    (lastOp.op = "data" /\ lastOp.role = "DisplayRole") =>
        LET si == cellItem[1].stats_interval
        IN  /\ cell # DivFault
            /\ (lastOp.idx.column = "AVERAGE_TIME" /\ si.selection_size = 0) => cell = NoValue
            /\ (lastOp.idx.column = "AVG_TEMP" /\ si.combined_count = 0) => cell = NoValue

\* ------------------------------------------------------------------- C11
NewlinesOf(text) == {p \in 1..Len(text) : text[p] = "\n"}
\* The text in front of the n-th newline of a text having that many
PrecedingNewline(text, n) ==
    LET p == CHOOSE q \in NewlinesOf(text) :
                 Cardinality({x \in NewlinesOf(text) : x < q}) = n - 1
    IN  SubSeq(text, 1, p - 1)
LocationWritten ==
    /\ lastOp.op = "PrintSetData"
    /\ lastOp.ret
    /\ lastOp.role = "DisplayRole"
    /\ lastOp.idx.column = "location"

\* C11: after setData on column 6, the stored location is the text in front
\* of its 16th newline when the text has more than 15 newlines (no character
\* of that prefix missing), and the text itself otherwise.
C11_StoresPrefix ==
    LocationWritten =>
        LET text == lastOp.value.s
            stored == list[lastOp.idx.row + 1].location
        IN  IF Cardinality(NewlinesOf(text)) > maxLines
            THEN stored = PrecedingNewline(text, maxLines + 1)
            ELSE stored = text

\* ------------------------------------------------------------------- C12
\* The device a row shows, read through data()
ShownAt(map, r) ==
    [model |-> DiveComputerModel_data(map, createIndex(r, "MODEL", NULL), "DisplayRole").v,
     id |-> DiveComputerModel_data(map, createIndex(r, "ID", NULL), "DisplayRole").v,
     nickName |-> DiveComputerModel_data(map, createIndex(r, "NICKNAME", NULL), "DisplayRole").v]
ShownRows(map) == [r \in 1..Len(mmValues(map)) |-> ShownAt(map, r - 1)]
WithoutRow(seq, r) == [k \in 1..(Len(seq) - 1) |-> IF k <= r THEN seq[k] ELSE seq[k + 1]]
Bracket(log, begin, end, before, after) ==
    \E k \in 1..(Len(log) - 1) :
        /\ log[k].sig = begin /\ log[k].rowCount = before
        /\ log[k + 1].sig = end /\ log[k + 1].rowCount = after
FullRemoveThenInsert(log, old, new) ==
    /\ old > 0 => Bracket(log, "beginRemoveRows", "endRemoveRows", old, 0)
    /\ new > 0 => Bracket(log, "beginInsertRows", "endInsertRows", 0, new)
    /\ \A j, k \in 1..Len(log) :
          log[j].sig = "endRemoveRows" /\ log[k].sig = "beginInsertRows" => j < k
    /\ log[Len(log)].sig = "return" /\ log[Len(log)].rowCount = new
C12_Step ==
    /\ lastOp'.op \in {"update", "remove"} =>
          /\ numRows' = Len(mmValues(dcWorkingMap'))
          /\ FullRemoveThenInsert(signals', numRows, Len(mmValues(dcWorkingMap')))
    /\ lastOp'.op = "update" => dcWorkingMap' = dcWorkingMap
    /\ lastOp'.op = "remove" =>
          ShownRows(dcWorkingMap') = WithoutRow(ShownRows(dcWorkingMap), lastOp'.idx.row)
    /\ lastOp'.op = "DCsetData" /\ numRows = Len(mmValues(dcWorkingMap)) =>
          numRows' = Len(mmValues(dcWorkingMap'))

\* C12: update() leaves rowCount() equal to the size of the working map and
\* always removes all old rows and then inserts all new rows, also when the
\* count is the same; remove(index) deletes the entry shown at that row and
\* updates, so rowCount() stays equal to the size of the working map.
C12_UpdateAndRemove == [][C12_Step]_vars

\* C12 witness: a remove() on a view of two rows has left one row, after a
\* full remove and a full insert.
C12_RemovedOneOfTwo ==
    /\ lastOp.op = "remove"
    /\ numRows = 1
    /\ Len(mmValues(dcWorkingMap)) = 1
    /\ Bracket(signals, "beginRemoveRows", "endRemoveRows", 2, 0)
    /\ Bracket(signals, "beginInsertRows", "endInsertRows", 0, 1)

\* ------------------------------------------------------------------- C13
C13_Step ==
    /\ lastOp'.op = "keepWorkingList" =>
          /\ divelist_changed' = (divelist_changed \/ mmValues(dcWorkingMap) # mmValues(dcList))
          /\ dcList' = dcWorkingMap
          /\ dcWorkingMap' = dcWorkingMap
    /\ lastOp'.op = "dropWorkingList" =>
          dcList' = dcList /\ divelist_changed' = divelist_changed
    /\ lastOp'.op \in {"DCsetData", "remove", "update"} =>
          dcList' = dcList /\ divelist_changed' = divelist_changed

\* C13: keepWorkingList() marks the store dirty exactly when the working map
\* differs from the committed map and leaves the committed map equal to the
\* working map; dropWorkingList() changes neither the committed map nor the
\* dirty flag; setData(), remove() and update() change the working map only.
C13_CommitAndDiscard == [][C13_Step]_vars

\* C13 witness: an edited working map has been committed and the store marked.
C13_EditCommitted ==
    /\ lastOp.op = "keepWorkingList"
    /\ divelist_changed
    /\ Len(dcList) > 0
    /\ dcList = dcWorkingMap
    /\ \E k \in 1..Len(dcList) : dcList[k].nickName = "a"

\* ------------------------------------------------------------------- C14
PrintWriteOn(op) == op.op = "PrintSetData" /\ isValid(op.idx)
C14_Step ==
    PrintWriteOn(lastOp') =>
        IF lastOp'.role \in {"EditRole", "BackgroundRole"}
        THEN lastOp'.ret
        ELSE ~lastOp'.ret /\ list' = list

\* C14: on a valid index setData() succeeds for a write with the edit role and
\* for a write with the background role; with any other role it fails and
\* changes no row.
C14_EditAndBackgroundOnly == [][C14_Step]_vars

\* ------------------------------------------------------------------- C16
\* The cells of the table, as data() is asked about them
PrintCells(n) ==
    {[idx |-> createIndex(r, c, NULL), role |-> role] :
        r \in 0..(n - 1), c \in PrintColumns, role \in {"DisplayRole", "BackgroundRole"}}
C16_Step ==
    PrintWriteOn(lastOp') /\ lastOp'.role = "DisplayRole" /\ lastOp'.ret =>
        /\ Len(list') = Len(list)
        /\ \A cl \in PrintCells(Len(list)) :
              \/ /\ cl.role = "DisplayRole"
                 /\ cl.idx.row = lastOp'.idx.row
                 /\ cl.idx.column = lastOp'.idx.column
              \/ TablePrintModel_data(list', cl.idx, cl.role)
                    = TablePrintModel_data(list, cl.idx, cl.role)

\* C16: a successful cell write to column c of row r changes the field of
\* column c in row r only: data() returns for every other cell, and for the
\* background of every row, what it returned before the write.
C16_WriteChangesOneCell == [][C16_Step]_vars

\* ------------------------------------------------------------------- C17
NicknameEdit(op) ==
    op.op = "DCsetData" /\ op.idx.column = "NICKNAME" /\ op.role = "EditRole" /\ op.ret
DeviceAt(map, r) == [model |-> ShownAt(map, r).model, id |-> ShownAt(map, r).id]
C17_Step ==
    NicknameEdit(lastOp') =>
        /\ Len(mmValues(dcWorkingMap')) = Len(mmValues(dcWorkingMap))
        /\ numRows' = numRows
        /\ signals' = <<[sig |-> "dataChanged", rowCount |-> numRows,
                         rows |-> mmValues(dcWorkingMap')]>>
        /\ ShownAt(dcWorkingMap', lastOp'.idx.row).nickName = toString(lastOp'.value)
        /\ \A q \in 0..(numRows - 1) :
              q # lastOp'.idx.row => DeviceAt(dcWorkingMap', q) = DeviceAt(dcWorkingMap, q)

\* C17: after setData() has written a nickname at row r, announcing a change
\* of that cell only, the size of the working map and rowCount() are as
\* before, the nickname read at row r is the one written, and every other row
\* shows the device it showed before.
C17_NicknameStaysInRow == [][C17_Step]_vars

\* ------------------------------------------------------------------- C15
ProfileRead == lastOp.op = "ProfileData"
ShowsDepthOrDuration(idx) ==
    \/ idx.row = 0 /\ ProfilePrintModel_data(idx, "DisplayRole").v = "Max depth: %1 %2"
    \/ idx.row = 1 /\ ProfilePrintModel_data(idx, "DisplayRole").v = "Duration: %1 min"

\* C15: over the 12 x 5 grid the font is bold for cell (0, 0) only, and the
\* alignment is right for the header cells that show the depth (row 0) and the
\* duration (row 1) and left for every other cell.
C15_BoldAndAlignment ==
    ProfileRead =>
        /\ lastOp.role = "FontRole" =>
              (cell.bold <=> (lastOp.idx.row = 0 /\ lastOp.idx.column = 0))
        /\ lastOp.role = "TextAlignmentRole" =>
              cell.v = IF ShowsDepthOrDuration(lastOp.idx)
                       THEN "AlignRight|AlignVCenter" ELSE "AlignLeft"

====
